---- MODULE Spec2Model ----
(***************************************************************************)
(* The chatroom-api route handlers (app/routes/chatroom_routes.js and the  *)
(* project routes) as a state machine over the document store.             *)
(*                                                                         *)
(* A request occupies a slot from the moment Express dispatches it until   *)
(* its outcome: `last` then holds the request that ended most recently,    *)
(* until the next one arrives.  A handler runs synchronously up to its     *)
(* first storage call, then suspends; every continuation (.then callback)  *)
(* is one action.  Storage is the Mongoose model: find, findById, create,  *)
(* findOneAndUpdate and the document's deleteOne.                          *)
(*                                                                         *)
(* JavaScript values keep their type: a value is a record [t, v] with      *)
(* t in {"undefined", "null", "string", "oid"}, so that === and !== are    *)
(* record (in)equality and a payload string never equals a stored          *)
(* ObjectId.  The messages array and the timestamps are not modelled.      *)
(*                                                                         *)
(* requireToken (passport) answers a request without a valid token before  *)
(* the handler runs and sets req.user otherwise: the requests of INDEX,    *)
(* SHOW, CREATE and DESTROY modelled here are those that reach the handler.*)
(* PATCH carries no requireToken, so its requester may be anybody.         *)
(***************************************************************************)
EXTENDS Integers, Sequences, FiniteSets, TLC

\* ------------------------------------------------------------- bounds
MaxRequests == 3    \* requests dispatched in one behaviour
MaxDocs == 1        \* documents the store ever assigns an id to

\* ------------------------------------------------------------- values
Users == {"u1", "u2"}
NoUser == "anonymous"

Undef == [t |-> "undefined", v |-> ""]
Null == [t |-> "null", v |-> ""]
Str(s) == [t |-> "string", v |-> s]
Oid(s) == [t |-> "oid", v |-> s]
Blank == Str("")

Kinds == {"project", "chatroom"}
Fields == {"user1", "user2", "title", "owner"}

\* The paths of each schema; Mongoose's strict mode ignores any other key.
SchemaFields(kind) ==
    IF kind = "project" THEN {"user1", "user2", "title", "owner"}
                        ELSE {"user1", "user2", "owner"}

\* Paths of type ObjectId.
IdFields == {"user1", "user2", "owner"}

\* Paths declared required: true.
RequiredFields(kind) ==
    IF kind = "project" THEN {"title", "user1", "owner"}
                        ELSE {"user1", "owner"}

\* Whether Mongoose can cast x to the type of path f.
Castable(f, x) ==
    IF f \in IdFields
        THEN x.t \in {"undefined", "null", "oid"} \/ (x.t = "string" /\ x.v \in Users)
        ELSE TRUE

\* The schema cast of x at path f: a valid id string becomes an ObjectId.
Cast(f, x) ==
    IF f \in IdFields /\ x.t = "string" THEN Oid(x.v) ELSE x

\* ------------------------------------------------------------- requests
Pay(u1, u2, ti, ow) == [user1 |-> u1, user2 |-> u2, title |-> ti, owner |-> ow]

\* The resource objects a client sends (a key left out is Undef).
Payloads ==
    { Pay(Str("u1"), Undef, Str("t"), Str("u2")),
      Pay(Undef, Str("u2"), Blank, Str("u2")),
      Pay(Undef, Null, Str("t2"), Undef),
      Pay(Str("bad"), Undef, Undef, Undef) }

\* req.body without the resource key.
NoObj == [missing |-> "key"]

\* null: no document.
NoDoc == [missing |-> "document"]

BadId == 0          \* an :id that is no ObjectId
NoId == -1          \* routes without :id
\* The well-formed ids: an id has no document before storage assigns it and
\* after its document is deleted.
Ids == 1..MaxDocs

\* A request and one other request overlapping it: the handlers share
\* nothing but the store, so races are races of two.
Slots == {1, 2}

NoReq == [op |-> "none", kind |-> "none", user |-> NoUser, id |-> NoId,
          game |-> FALSE, res |-> NoObj, late |-> FALSE]

\* No request has ended since the last one arrived.
NoLast == [req |-> NoReq, branch |-> "none", out |-> << >>]

VARIABLES
    resource,    \* the router under study: its collection shares nothing with the other
    docs,        \* the collection: id -> document
    nextId,      \* the next id storage assigns
    pendingDel,  \* ids whose deleteOne() was called and has not run yet
    req,         \* slot -> the request in flight in it
    pc,          \* slot -> "idle", "find" (first storage call) or "write"
    branch,      \* slot -> the branch the UPDATE callback took
    last,        \* the request that ended most recently, with its outcomes
    gone,        \* ids whose DELETE was answered 204
    joined,      \* id -> UPDATEs naming a second participant answered 201
    nreq,        \* requests arrived so far
    serial       \* no request arrived while another was in flight

vars == <<resource, docs, nextId, pendingDel, req, pc, branch, last, gone, joined,
          nreq, serial>>

Init ==
    /\ resource \in Kinds
    /\ docs = << >>
    /\ nextId = 1
    /\ pendingDel = {}
    /\ req = [r \in Slots |-> NoReq]
    /\ pc = [r \in Slots |-> "idle"]
    /\ branch = [r \in Slots |-> "none"]
    /\ last = NoLast
    /\ gone = {}
    /\ joined = [id \in Ids |-> 0]
    /\ nreq = 0
    /\ serial = TRUE

\* ------------------------------------------------------------- helpers
\* res.status(code).json(body) / res.sendStatus(code)
Res(code, body) == [ch |-> "res", what |-> code, body |-> body]

\* next(err): the error is forwarded to the error handler
Err(kind) == [ch |-> "next", what |-> kind, body |-> NoDoc]

\* customErrors.handle404: an absent record throws DocumentNotFoundError.
Handle404(d) == d # NoDoc

\* customErrors.requireOwnership: throws OwnershipError unless the
\* requester's id equals the resource's owner.
RequireOwnership(user, d) == d.owner = Oid(user)

\* remove_blank_fields: delete every key of the resource object whose
\* value is the empty string.
RemoveBlanks(p) ==
    IF p = NoObj THEN p ELSE [f \in Fields |-> IF p[f] = Blank THEN Undef ELSE p[f]]

\* (mutant) the owner key is left in the update object.
KeepOwner(p) == p

\* delete req.body.<resource>.owner
StripOwner(p) == [p EXCEPT !.owner = Undef]

\* (mutant) the route is registered without the removeBlanks middleware.
PatchBodyUnsanitized(p) == StripOwner(p)

\* The update object PATCH hands to findOneAndUpdate: removeBlanks runs as
\* route middleware, then the handler deletes the owner key.
PatchBody(p) == StripOwner(RemoveBlanks(p))

\* The key whose owner the CREATE handler assigns.
OwnerKeyPresent(kind, game, res) ==
    IF kind = "chatroom" THEN game ELSE res # NoObj

\* The object CREATE hands to Model.create.
CreateArg(rq) ==
    IF rq.kind = "project" THEN [rq.res EXCEPT !.owner = Str(rq.user)] ELSE rq.res

\* Model.findById(id) on the collection of `kind`.
FindById(kind, id) ==
    IF id \in DOMAIN docs /\ docs[id].kind = kind THEN docs[id] ELSE NoDoc

\* Document validation on create: every path casts, required paths are set.
Valid(kind, p) ==
    /\ \A f \in SchemaFields(kind) : Castable(f, p[f])
    /\ \A f \in RequiredFields(kind) : p[f].t \notin {"undefined", "null"} /\ p[f] # Blank

\* The document Model.create stores.
NewDoc(id, kind, p) ==
    [id |-> id, kind |-> kind,
     user1 |-> Cast("user1", p.user1),
     user2 |-> Cast("user2", p.user2),
     title |-> IF "title" \in SchemaFields(kind) THEN p.title ELSE Undef,
     owner |-> Cast("owner", p.owner)]

\* findOneAndUpdate casts the update object before it is sent.
UpdateCasts(kind, p) ==
    \A f \in SchemaFields(kind) : Castable(f, p[f])

\* One path of the document after { $set: p }.
SetField(d, p, f) ==
    IF f \in SchemaFields(d.kind) /\ p[f] # Undef THEN Cast(f, p[f]) ELSE d[f]

\* findOneAndUpdate({_id: id}, p, {new: true}) applied to document d.
ApplyUpdate(d, p) ==
    [id |-> d.id, kind |-> d.kind,
     user1 |-> SetField(d, p, "user1"),
     user2 |-> SetField(d, p, "user2"),
     title |-> SetField(d, p, "title"),
     owner |-> SetField(d, p, "owner")]

\* (mutant) the ids are compared by value, a string against an ObjectId.
NotInvolvedByValue(p, d) == (p.user1.v # d.user1.v) /\ (p.user2.v # d.user2.v)

\* The two-party test of the UPDATE callback: !== on the payload's values
\* and the document's.
NotInvolved(p, d) == (p.user1 # d.user1) /\ (p.user2 # d.user2)

\* (mutant) the two-party test guards the single-party resource too.
UpdateBranchGuarded(p, d) ==
    IF NotInvolved(p, d) THEN "mismatch" ELSE "involved"

\* The branch the UPDATE callback takes on document d with update p.
UpdateBranch(p, d) ==
    IF d.user2 = Undef THEN "single"
    ELSE IF NotInvolved(p, d) THEN "mismatch"
    ELSE "involved"

\* (mutant) every branch goes on to findOneAndUpdate.
ReturnsUpdateAlways(b) == TRUE

\* Whether the branch returns findOneAndUpdate's promise (the mismatch
\* branch returns a string instead).
ReturnsUpdate(b) == b \in {"single", "involved"}

InFlight(r) == pc[r] \in {"find", "write"}

\* A payload that names a second participant (and no null user1).
NamesUser2(p) == p # NoObj /\ p.user2.t = "string" /\ p.user1.t # "null"

\* ------------------------------------------------------------- dispatch
Request(op, kind, user, id, game, res) ==
    [op |-> op, kind |-> kind, user |-> user, id |-> id,
     game |-> game, res |-> res, late |-> FALSE]

\* Express hands a request to its route, in the first free slot.
Arrive(r) ==
    /\ pc[r] = "idle"
    /\ \A q \in Slots : pc[q] = "idle" => r <= q
    /\ nreq < MaxRequests
    /\ nreq' = nreq + 1
    /\ serial' = (serial /\ \A q \in Slots : ~InFlight(q))

\* The handler of request rq made its first storage call and awaits it.
Dispatch(r, rq) ==
    /\ Arrive(r)
    /\ req' = [req EXCEPT ![r] = [rq EXCEPT !.late = (rq.id \in gone)]]
    /\ pc' = [pc EXCEPT ![r] = "find"]
    /\ last' = NoLast
    /\ UNCHANGED branch

\* The handler of request rq throws before its first storage call:
\* Express catches the exception and forwards it.
Throw(r, rq, kind) ==
    /\ Arrive(r)
    /\ last' = [req |-> [rq EXCEPT !.late = (rq.id \in gone)],
                branch |-> "none", out |-> <<Err(kind)>>]
    /\ UNCHANGED <<req, pc, branch>>

\* A callback returns another storage promise: the chain waits for it.
Suspend(r, b) ==
    /\ pc' = [pc EXCEPT ![r] = "write"]
    /\ branch' = [branch EXCEPT ![r] = b]
    /\ UNCHANGED <<req, last>>

\* (mutant) next is called once more after the outcome.
FinishAndForward(r, b, ev) ==
    /\ pc' = [pc EXCEPT ![r] = "idle"]
    /\ req' = [req EXCEPT ![r] = NoReq]
    /\ branch' = [branch EXCEPT ![r] = "none"]
    /\ last' = [req |-> req[r], branch |-> b, out |-> <<ev, Err("Error")>>]

\* A callback of the promise chain ends the request: a response is sent
\* or the error reaches .catch(next).
Finish(r, b, ev) ==
    /\ pc' = [pc EXCEPT ![r] = "idle"]
    /\ req' = [req EXCEPT ![r] = NoReq]
    /\ branch' = [branch EXCEPT ![r] = "none"]
    /\ last' = [req |-> req[r], branch |-> b, out |-> <<ev>>]

\* CREATE requests in flight: each will need an id.
Creating == {q \in Slots : pc[q] = "find" /\ req[q].op = "CREATE"}

\* ------------------------------------------------------------- INDEX
\* GET /<kind>s: Model.find() is called.
IndexStart(r) ==
    \E kind \in {resource}, user \in Users :
        /\ Dispatch(r, Request("INDEX", kind, user, NoId, FALSE, NoObj))
        /\ UNCHANGED <<resource, docs, nextId, pendingDel, gone, joined>>

\* find() resolved: every document of the collection is sent with 200.
IndexDone(r) ==
    /\ pc[r] = "find" /\ req[r].op = "INDEX"
    /\ Finish(r, "none",
              Res("200", [i \in {j \in DOMAIN docs : docs[j].kind = req[r].kind} |-> docs[i]]))
    /\ UNCHANGED <<resource, docs, nextId, pendingDel, gone, joined, nreq, serial>>

\* ------------------------------------------------------------- SHOW
\* GET /<kind>s/:id: Model.findById(id) is called.
ShowStart(r) ==
    \E kind \in {resource}, user \in Users, id \in Ids \cup {BadId} :
        /\ Dispatch(r, Request("SHOW", kind, user, id, FALSE, NoObj))
        /\ UNCHANGED <<resource, docs, nextId, pendingDel, gone, joined>>

\* (mutant) the chain lacks .then(handle404): null has no toObject.
ShowDoneNo404(r) ==
    /\ pc[r] = "find" /\ req[r].op = "SHOW"
    /\ LET d == FindById(req[r].kind, req[r].id) IN
         IF req[r].id = BadId THEN Finish(r, "none", Err("CastError"))
         ELSE IF d = NoDoc THEN Finish(r, "none", Err("TypeError"))
         ELSE Finish(r, "none", Res("200", d))
    /\ UNCHANGED <<resource, docs, nextId, pendingDel, gone, joined, nreq, serial>>

\* findById settled: handle404, then 200 with the document.
ShowDone(r) ==
    /\ pc[r] = "find" /\ req[r].op = "SHOW"
    /\ LET d == FindById(req[r].kind, req[r].id) IN
         IF req[r].id = BadId THEN Finish(r, "none", Err("CastError"))
         ELSE IF ~Handle404(d) THEN Finish(r, "none", Err("NotFound"))
         ELSE Finish(r, "none", Res("200", d))
    /\ UNCHANGED <<resource, docs, nextId, pendingDel, gone, joined, nreq, serial>>

\* ------------------------------------------------------------- CREATE
\* POST /<kind>s: the handler assigns the owner, then calls Model.create.
\* Assigning to a key the body lacks throws a TypeError.
CreateStart(r) ==
    \E kind \in {resource}, user \in Users, res \in Payloads \cup {NoObj} :
      \E game \in (IF kind = "chatroom" THEN BOOLEAN ELSE {FALSE}) :
        /\ Cardinality(Creating) + nextId <= MaxDocs
        /\ IF ~OwnerKeyPresent(kind, game, res)
              THEN Throw(r, Request("CREATE", kind, user, NoId, game, res), "TypeError")
              ELSE Dispatch(r, Request("CREATE", kind, user, NoId, game, res))
        /\ UNCHANGED <<resource, docs, nextId, pendingDel, gone, joined>>

\* create settled: 201 with the stored document, or the error forwarded.
\* create(undefined) stores nothing; the error is the validation error or
\* the TypeError of undefined.toObject(), depending on the Mongoose build.
CreateDone(r) ==
    /\ pc[r] = "find" /\ req[r].op = "CREATE"
    /\ LET arg == CreateArg(req[r]) IN
         IF arg = NoObj THEN
            /\ \E k \in {"ValidationError", "TypeError"} : Finish(r, "none", Err(k))
            /\ UNCHANGED <<docs, nextId>>
         ELSE IF ~Valid(req[r].kind, arg) THEN
            /\ Finish(r, "none", Err("ValidationError"))
            /\ UNCHANGED <<docs, nextId>>
         ELSE
            /\ docs' = docs @@ (nextId :> NewDoc(nextId, req[r].kind, arg))
            /\ nextId' = nextId + 1
            /\ Finish(r, "none", Res("201", NewDoc(nextId, req[r].kind, arg)))
    /\ UNCHANGED <<resource, pendingDel, gone, joined, nreq, serial>>

\* ------------------------------------------------------------- UPDATE
\* PATCH /<kind>s/:id: removeBlanks, delete the owner key, then
\* Model.findById(id) is called.  The route has no requireToken, so
\* req.user is unset whoever sends the request.
UpdateStart(r) ==
    \E kind \in {resource}, id \in Ids \cup {BadId}, res \in Payloads \cup {NoObj} :
        /\ IF res = NoObj
              THEN Throw(r, Request("UPDATE", kind, NoUser, id, FALSE, res), "TypeError")
              ELSE Dispatch(r, Request("UPDATE", kind, NoUser, id, FALSE, res))
        /\ UNCHANGED <<resource, docs, nextId, pendingDel, gone, joined>>

\* findById settled: handle404, then the callback of lines 84-96.  The
\* string it returns on a mismatch has no toObject, so the next callback
\* throws a TypeError.
UpdateFound(r) ==
    /\ pc[r] = "find" /\ req[r].op = "UPDATE"
    /\ LET d == FindById(req[r].kind, req[r].id)
           p == PatchBody(req[r].res) IN
         IF req[r].id = BadId THEN Finish(r, "none", Err("CastError"))
         ELSE IF ~Handle404(d) THEN Finish(r, "none", Err("NotFound"))
         ELSE IF ReturnsUpdate(UpdateBranch(p, d)) THEN Suspend(r, UpdateBranch(p, d))
         ELSE Finish(r, UpdateBranch(p, d), Err("TypeError"))
    /\ UNCHANGED <<resource, docs, nextId, pendingDel, gone, joined, nreq, serial>>

\* findOneAndUpdate settled: 201 with the updated document; null (the
\* document is gone) has no toObject.
UpdateDone(r) ==
    /\ pc[r] = "write" /\ req[r].op = "UPDATE"
    /\ LET d == FindById(req[r].kind, req[r].id)
           p == PatchBody(req[r].res) IN
         IF ~UpdateCasts(req[r].kind, p) THEN
            Finish(r, branch[r], Err("CastError")) /\ UNCHANGED <<docs, joined>>
         ELSE IF d = NoDoc THEN
            Finish(r, branch[r], Err("TypeError")) /\ UNCHANGED <<docs, joined>>
         ELSE
            /\ docs' = [docs EXCEPT ![req[r].id] = ApplyUpdate(d, p)]
            /\ joined' = [joined EXCEPT ![req[r].id] =
                             IF NamesUser2(req[r].res) THEN @ + 1 ELSE @]
            /\ Finish(r, branch[r], Res("201", ApplyUpdate(d, p)))
    /\ UNCHANGED <<resource, nextId, pendingDel, gone, nreq, serial>>

\* ------------------------------------------------------------- DESTROY
\* DELETE /<kind>s/:id (/games/:id for chatrooms): findById is called.
DestroyStart(r) ==
    \E kind \in {resource}, user \in Users, id \in Ids \cup {BadId} :
        /\ Dispatch(r, Request("DESTROY", kind, user, id, FALSE, NoObj))
        /\ UNCHANGED <<resource, docs, nextId, pendingDel, gone, joined>>

\* (mutant) DELETE does not call requireOwnership.
MayDestroyAnyone(user, d) == TRUE

\* requireOwnership(req, <document>) in the DELETE callback does not throw.
MayDestroy(user, d) == RequireOwnership(user, d)

\* findById settled: handle404, requireOwnership, then deleteOne() is
\* called and its promise dropped; the next callback sends 204 at once.
DestroyDone(r) ==
    /\ pc[r] = "find" /\ req[r].op = "DESTROY"
    /\ LET d == FindById(req[r].kind, req[r].id) IN
         IF req[r].id = BadId THEN
            Finish(r, "none", Err("CastError")) /\ UNCHANGED <<pendingDel, gone>>
         ELSE IF ~Handle404(d) THEN
            Finish(r, "none", Err("NotFound")) /\ UNCHANGED <<pendingDel, gone>>
         ELSE IF ~MayDestroy(req[r].user, d) THEN
            Finish(r, "none", Err("NotOwner")) /\ UNCHANGED <<pendingDel, gone>>
         ELSE
            /\ pendingDel' = pendingDel \cup {req[r].id}
            /\ gone' = gone \cup {req[r].id}
            /\ Finish(r, "none", Res("204", NoDoc))
    /\ UNCHANGED <<resource, docs, nextId, joined, nreq, serial>>

\* The deleteOne() a DESTROY left running removes the document.
DeleteOneRun(id) ==
    /\ id \in pendingDel
    /\ pendingDel' = pendingDel \ {id}
    /\ docs' = [i \in DOMAIN docs \ {id} |-> docs[i]]
    /\ UNCHANGED <<resource, nextId, req, pc, branch, last, gone, joined, nreq, serial>>

\* ------------------------------------------------------------- system
Next ==
    \/ \E r \in Slots : IndexStart(r)
    \/ \E r \in Slots : IndexDone(r)
    \/ \E r \in Slots : ShowStart(r)
    \/ \E r \in Slots : ShowDone(r)
    \/ \E r \in Slots : CreateStart(r)
    \/ \E r \in Slots : CreateDone(r)
    \/ \E r \in Slots : UpdateStart(r)
    \/ \E r \in Slots : UpdateFound(r)
    \/ \E r \in Slots : UpdateDone(r)
    \/ \E r \in Slots : DestroyStart(r)
    \/ \E r \in Slots : DestroyDone(r)
    \/ \E id \in Ids : DeleteOneRun(id)

Spec == Init /\ [][Next]_vars

\* ------------------------------------------------------------- storage faults
\* The storage call a handler awaits rejects: .catch(next) forwards it.
StorageFail(r) ==
    /\ InFlight(r)
    /\ Finish(r, branch[r], Err("StorageError"))
    /\ UNCHANGED <<resource, docs, nextId, pendingDel, gone, joined, nreq, serial>>

\* The dropped deleteOne() rejects: nobody hears of it.
DeleteOneFail(id) ==
    /\ id \in pendingDel
    /\ pendingDel' = pendingDel \ {id}
    /\ UNCHANGED <<resource, docs, nextId, req, pc, branch, last, gone, joined, nreq, serial>>

NextF ==
    \/ Next
    \/ \E r \in Slots : StorageFail(r)
    \/ \E id \in Ids : DeleteOneFail(id)

\* The handlers over a storage whose every call may also fail.
SpecF == Init /\ [][NextF]_vars

\* ------------------------------------------------------------- observations
\* The request that ended last got exactly the response `code`.
Answered(code) ==
    Len(last.out) = 1 /\ last.out[1].ch = "res" /\ last.out[1].what = code

\* The request that ended last got exactly the error `kind` forwarded.
Forwarded(kind) ==
    Len(last.out) = 1 /\ last.out[1].ch = "next" /\ last.out[1].what = kind

\* The document findById returns now for request rq.
Target(rq) == FindById(rq.kind, rq.id)

\* The lookup of the request in slot r settles in this step.
Looks(r) == pc[r] = "find" /\ pc'[r] # "find"

\* The findOneAndUpdate of the request in slot r settles in this step.
Writes(r) == pc[r] = "write" /\ pc'[r] = "idle"

\* The request in slot r ends in this step.
Ends(r) == InFlight(r) /\ pc'[r] = "idle" /\ last'.req = req[r]

StoreUnchanged == docs' = docs /\ pendingDel' = pendingDel

\* ------------------------------------------------------------- C1
\* C1: after a successful CREATE by principal p, of either resource, the
\* stored document's owner is p, whatever owner the payload carried.
C1_OwnerIsCreator ==
    (last.req.op = "CREATE" /\ Answered("201")) =>
        /\ last.out[1].body.owner = Oid(last.req.user)
        /\ \A id \in DOMAIN docs :
               id = last.out[1].body.id => docs[id].owner = Oid(last.req.user)

\* ------------------------------------------------------------- C2
\* C2 as stated: SHOW, UPDATE and DELETE on a well-formed id that has no
\* document end with NotFound forwarded.
C2_AlwaysNotFound ==
    (/\ last.req.op \in {"SHOW", "UPDATE", "DESTROY"}
     /\ last.req.id \in Ids /\ last.req.id >= nextId)
    => Forwarded("NotFound")

\* C2, amended: a SHOW, UPDATE or DELETE whose lookup of a well-formed id
\* finds no document ends, in that step, with NotFound forwarded and
\* nothing else, and leaves the store as it was.  (An UPDATE whose body
\* lacks the resource object never gets to the lookup.)
C2_LookupMissIsNotFound ==
    [][\A r \in Slots :
          (/\ Looks(r)
           /\ req[r].op \in {"SHOW", "UPDATE", "DESTROY"}
           /\ req[r].id \in Ids
           /\ Target(req[r]) = NoDoc)
          => (Ends(r) /\ Forwarded("NotFound")' /\ StoreUnchanged)]_vars

\* A lookup missed after the document was deleted: the UPDATE ended with
\* NotFound.
C2_Witness ==
    /\ last.req.op = "UPDATE" /\ Forwarded("NotFound")
    /\ last.req.id \in gone
    /\ Target(last.req) = NoDoc

\* ------------------------------------------------------------- C3
\* C3: a DELETE whose lookup finds a document the requester does not own
\* ends with NotOwner forwarded; the document stays in the store as it was
\* (no deleteOne is started), so a SHOW still finds it.
C3_NonOwnerDeleteRejected ==
    [][\A r \in Slots :
          (/\ Looks(r)
           /\ req[r].op = "DESTROY"
           /\ Target(req[r]) # NoDoc
           /\ Target(req[r]).owner # Oid(req[r].user))
          => (/\ Ends(r)
              /\ Forwarded("NotOwner")'
              /\ StoreUnchanged
              /\ req[r].id \in DOMAIN docs'
              /\ docs'[req[r].id] = Target(req[r]))]_vars

\* A non-owner's DELETE was refused and the document is still there.
C3_Witness ==
    /\ last.req.op = "DESTROY" /\ Forwarded("NotOwner")
    /\ Target(last.req) # NoDoc
    /\ Target(last.req).owner # Oid(last.req.user)
    /\ last.req.id \notin pendingDel

C5_BlankLeavesField ==
    [][\A r \in Slots :
          (Writes(r) /\ Target(req[r]) # NoDoc)
          => \A f \in Fields :
                 req[r].res[f] = Blank => docs'[req[r].id][f] = docs[req[r].id][f]]_vars

\* A PATCH with a blank title was applied: the title is kept, its user2
\* is written.
C5_Witness ==
    /\ last.req.op = "UPDATE" /\ Answered("201")
    /\ last.req.res.title = Blank
    /\ Target(last.req) # NoDoc
    /\ Target(last.req).title = Str("t")
    /\ Target(last.req).user2 = Cast("user2", last.req.res.user2)
    /\ Target(last.req).user2 # Undef

\* ------------------------------------------------------------- C6
\* C6: once a DELETE on an id was answered 204, the document is not in the
\* store, and every SHOW, UPDATE or DELETE on that id started afterwards
\* ends with NotFound.
C6_DeletionTerminal ==
    /\ \A id \in gone : id \notin DOMAIN docs
    /\ (/\ last.req.late
        /\ last.req.op \in {"SHOW", "UPDATE", "DESTROY"}
        /\ last.req.res # NoObj \/ last.req.op # "UPDATE")
       => Forwarded("NotFound")

\* ------------------------------------------------------------- C7
\* C7 as stated: when the UPDATE callback takes the mismatch branch, the
\* update is applied to the stored document all the same.
C7_MismatchStillUpdates ==
    [][\A r \in Slots :
          (Ends(r) /\ req[r].op = "UPDATE" /\ last'.branch = "mismatch")
          => docs'[req[r].id] = ApplyUpdate(Target(req[r]), PatchBody(req[r].res))]_vars

\* C7, amended: when the UPDATE lookup finds a document whose user2 is not
\* undefined and the payload's user1 and user2 both differ from the stored
\* values, the request ends in that step with a TypeError forwarded (the
\* message string has no toObject) and the store is left as it was.
C7_MismatchRejects ==
    [][\A r \in Slots :
          (/\ Looks(r) /\ req[r].op = "UPDATE"
           /\ Target(req[r]) # NoDoc
           /\ Target(req[r]).user2 # Undef
           /\ NotInvolved(PatchBody(req[r].res), Target(req[r])))
          => (Ends(r) /\ Forwarded("TypeError")' /\ StoreUnchanged)]_vars

\* A mismatching UPDATE ended: its payload would have changed the
\* document, and did not.
C7_Witness ==
    /\ last.req.op = "UPDATE" /\ last.branch = "mismatch"
    /\ Forwarded("TypeError")
    /\ Target(last.req) # NoDoc
    /\ ApplyUpdate(Target(last.req), PatchBody(last.req.res)) # Target(last.req)

\* ------------------------------------------------------------- C8
\* C8 as stated: an UPDATE that found the resource with user2 unset is
\* answered 201.
C8_SinglePartyAlways201 ==
    (last.req.op = "UPDATE" /\ last.branch = "single") => Answered("201")

\* C8, amended: an UPDATE whose lookup finds the resource with user2 unset
\* always goes on to the write, whatever the payload's user1 and user2.
\* The write, if the payload casts and the document is still there, sets
\* the non-blank payload fields other than owner and answers 201 with the
\* document as updated; otherwise it changes nothing and forwards a
\* CastError (uncastable value) or a TypeError (document gone).
C8_SinglePartyUpdate ==
    [][\A r \in Slots :
          /\ (/\ Looks(r) /\ req[r].op = "UPDATE"
              /\ Target(req[r]) # NoDoc /\ Target(req[r]).user2 = Undef)
             => (pc'[r] = "write" /\ branch'[r] = "single" /\ StoreUnchanged)
          /\ (Writes(r) /\ branch[r] = "single")
             => LET d == Target(req[r])
                    raw == req[r].res
                    id == req[r].id
                IN  /\ Ends(r)
                    /\ IF \E f \in SchemaFields(req[r].kind) \ {"owner"} :
                             raw[f] # Blank /\ ~Castable(f, raw[f])
                          THEN Forwarded("CastError")' /\ StoreUnchanged
                       ELSE IF d = NoDoc
                          THEN Forwarded("TypeError")' /\ StoreUnchanged
                       ELSE /\ Answered("201")'
                            /\ last'.out[1].body = docs'[id]
                            /\ docs'[id].owner = d.owner
                            /\ \A f \in SchemaFields(req[r].kind) \ {"owner"} :
                                   docs'[id][f] = IF raw[f] \in {Undef, Blank}
                                                     THEN d[f]
                                                     ELSE Cast(f, raw[f])]_vars

\* An UPDATE of a single-party resource was applied: it set user2 and was
\* answered 201 with the stored document.
C8_Witness ==
    /\ last.req.op = "UPDATE" /\ last.branch = "single"
    /\ Answered("201")
    /\ Target(last.req) # NoDoc
    /\ last.out[1].body = Target(last.req)
    /\ Target(last.req).user2 = Oid("u2")

\* ------------------------------------------------------------- C9
\* C9: no serial execution answers 201 to both of two UPDATEs of one
\* document that each name a second participant (the second finds user2
\* set and is refused); an interleaving of the two lookups before the two
\* writes does.
C9_SerialRefusesSecond ==
    serial => \A id \in Ids : joined[id] <= 1

\* Both were accepted: each branch was decided on the single-party
\* document, the later write landed on a document already overwritten.
C9_Witness ==
    /\ ~serial
    /\ \E id \in Ids : joined[id] = 2 /\ id \in DOMAIN docs /\ docs[id].user2.t = "oid"
    /\ last.req.op = "UPDATE" /\ last.branch = "single" /\ Answered("201")

\* ------------------------------------------------------------- C10
\* The callback the request in slot r is waiting for.
Continue(r) ==
    \/ IndexDone(r)
    \/ ShowDone(r)
    \/ CreateDone(r)
    \/ UpdateFound(r)
    \/ UpdateDone(r)
    \/ DestroyDone(r)

\* C10: a request in a handler can always take its next step, and a
\* request that ended has exactly one outcome, a response or a forwarded
\* error: never two, never none.
C10_ExactlyOneOutcome ==
    /\ last # NoLast => (last.req # NoReq /\ Len(last.out) = 1)
    /\ \A r \in Slots :
           IF InFlight(r) THEN req[r] # NoReq /\ ENABLED Continue(r)
                          ELSE req[r] = NoReq

\* A request ended with the storage's error forwarded while another was
\* in flight over a store that holds a document.
C10_Witness ==
    /\ ~serial
    /\ Forwarded("StorageError")
    /\ last.req.op = "UPDATE"
    /\ docs # << >>
    /\ \E r \in Slots : InFlight(r)

====
